---- MODULE Spec2Model ----
(***************************************************************************)
(* A model of the tenzi simulator: the die source (src/src/rand.rs), the   *)
(* mode engine (src/src/mode.rs), the three histogram strategies           *)
(* (src/src/simulation.rs), the loops that drive one trial, and the        *)
(* per-die program with its Monte Carlo aggregation (src/src/main.rs).     *)
(*                                                                         *)
(* Faces and bucket indices: the code indexes buckets from 0 and faces     *)
(* from 1; TLA+ sequences are indexed from 1, so buckets[f] here is the    *)
(* code's buckets[f - 1], the count of face f.                             *)
(***************************************************************************)
EXTENDS Integers, Sequences, FiniteSets, TLC

\* ------------------------------------------------------------------ bounds

\* The largest number of sides and of dice a trial is constructed with.
MaxSides == 3
MaxDice == 6
\* The raw generator values get_num() may return are 0 .. MaxRaw.
MaxRaw == 2
\* The number of step() calls followed in one trial.
MaxSteps == 3
\* The histograms handed to the mode engine on its own: length and counts.
MaxLen == 4
MaxCount == 3

VARIABLES
    sim,      \* the strategy state (NaiveSimulation / DivideSimulation / MergeSimulation)
    failed,   \* "none", or how the trial failed: "panic" (overflow checks on), "wrap" (off)
    pc,       \* the position of the trial loop: "roll", "step"
    before,   \* history: sim as it was when the current round began
    rolled,   \* history: the histogram after the last roll(), as step() saw it
    calls,    \* history: Die Source calls made in the current round
    call,     \* a call of the mode engine on its own: [fn, counts, out]
    mc        \* a run of the program of main.rs: main, monte_carlo and its trials

vars == <<sim, failed, pc, before, rolled, calls, call, mc>>

\* ------------------------------------------------------------- helpers

RECURSIVE SumFrom(_, _)
SumFrom(s, i) ==
    IF i > Len(s) THEN 0 ELSE s[i] + SumFrom(s, i + 1)

\* buckets.iter().sum(), of the value of s (v \in {s} binds v to that value,
\* so that s is evaluated once and not once per element).
Sum(s) == CHOOSE total \in {SumFrom(v, 1) : v \in {s}} : TRUE

Min2(a, b) == IF a < b THEN a ELSE b

Zeros(n) == [k \in 1..n |-> 0]

\* Option<Num>::None for the cached mode (faces are >= 1).
None == 0

\* ------------------------------------------------------------ die source

RawValues == 0..MaxRaw

\* A mutant of roll: without the 1 that lifts the remainder to a face.
roll_remainder(num_sides, raw) == raw % num_sides

\* rand::roll: 1 + (get_num() % num_sides), raw being what get_num() returned.
roll(num_sides, raw) == 1 + (raw % num_sides)

\* ------------------------------------------------------------ mode engine

\* Iterator::max_by_key over enumerate(): a fold that keeps the later element
\* unless the earlier one is strictly greater, so the last maximum wins.
RECURSIVE MaxByKeyLast(_, _, _)
MaxByKeyLast(counts, i, best) ==
    IF i > Len(counts) THEN best
    ELSE IF counts[best] > counts[i] THEN MaxByKeyLast(counts, i + 1, best)
    ELSE MaxByKeyLast(counts, i + 1, i)

\* A mutant of mode_from_counts: the first maximum wins.
RECURSIVE MaxByKeyFirst(_, _, _)
MaxByKeyFirst(counts, i, best) ==
    IF i > Len(counts) THEN best
    ELSE IF counts[i] > counts[best] THEN MaxByKeyFirst(counts, i + 1, i)
    ELSE MaxByKeyFirst(counts, i + 1, best)

mode_from_counts_first(counts) == MaxByKeyFirst(counts, 2, 1)

\* mode.rs mode_from_counts: the (1-based) index of the maximum count.
mode_from_counts(counts) == MaxByKeyLast(counts, 2, 1)

\* A mutant of TopTwoLoop: >= for >, so that on ties the later index wins.
RECURSIVE TopTwoLoop_LaterWins(_, _, _)
TopTwoLoop_LaterWins(counts, i, acc) ==
    IF i > Len(counts) - 1 THEN acc
    ELSE LET count == counts[i + 1] IN
         IF count >= acc.first
         THEN TopTwoLoop_LaterWins(counts, i + 1,
                  [first_index |-> i, second_index |-> acc.first_index,
                   first |-> count, second |-> acc.first])
         ELSE IF count >= acc.second
         THEN TopTwoLoop_LaterWins(counts, i + 1,
                  [acc EXCEPT !.second = count, !.second_index = i])
         ELSE TopTwoLoop_LaterWins(counts, i + 1, acc)

\* mode.rs top_two_modes_from_counts: the loop over enumerate().skip(1), with
\* the code's 0-based first_index / second_index; acc is the loop's state.
RECURSIVE TopTwoLoop(_, _, _)
TopTwoLoop(counts, i, acc) ==
    IF i > Len(counts) - 1 THEN acc
    ELSE LET count == counts[i + 1] IN
         IF count > acc.first
         THEN TopTwoLoop(counts, i + 1,
                  [first_index |-> i, second_index |-> acc.first_index,
                   first |-> count, second |-> acc.first])
         ELSE IF count > acc.second
         THEN TopTwoLoop(counts, i + 1,
                  [acc EXCEPT !.second = count, !.second_index = i])
         ELSE TopTwoLoop(counts, i + 1, acc)

top_two_modes_from_counts(counts) ==
    LET acc == TopTwoLoop(counts, 1,
                   [first_index |-> 0, second_index |-> 0,
                    first |-> counts[1], second |-> 0])
    IN <<acc.first_index + 1, acc.second_index + 1>>

\* A mutant of anti_modes: "nonzero_count < 1" for "nonzero_count <= 1", so
\* that a single nonzero face is taken for a tie and given up.
anti_modes_off_by_one(counts) ==
    LET mode_count == counts[mode_from_counts(counts)]
        nonzero == {k \in 1..Len(counts) : counts[k] > 0}
        min_nonzero == CHOOSE v \in {counts[k] : k \in nonzero} :
                           \A k \in nonzero : v <= counts[k]
    IN IF Cardinality(nonzero) < 1 THEN <<>>
       ELSE IF \A k \in nonzero : counts[k] = mode_count
       THEN <<CHOOSE k \in nonzero : \A j \in nonzero : k <= j>>
       ELSE SelectSeq([k \in 1..Len(counts) |-> k], LAMBDA k : counts[k] = min_nonzero)

\* A mutant of anti_modes: without the rule for a complete tie, so that every
\* tied face is given up.
anti_modes_no_tie_rule(counts) ==
    LET nonzero == {k \in 1..Len(counts) : counts[k] > 0}
        min_nonzero == CHOOSE v \in {counts[k] : k \in nonzero} :
                           \A k \in nonzero : v <= counts[k]
    IN IF Cardinality(nonzero) <= 1 THEN <<>>
       ELSE SelectSeq([k \in 1..Len(counts) |-> k], LAMBDA k : counts[k] = min_nonzero)

\* A mutant of anti_modes: the last pass gathers the faces that hold mode_count,
\* not min_nonzero.
anti_modes_of_mode_count(counts) ==
    LET mode_index == mode_from_counts(counts)
        mode_count == counts[mode_index]
        nonzero == {k \in 1..Len(counts) : counts[k] > 0}
        nonzero_count == Cardinality(nonzero)
        mode_count_occurrences == Cardinality({k \in nonzero : counts[k] = mode_count})
        first_nonzero_index == CHOOSE k \in nonzero : \A j \in nonzero : k <= j
    IN IF nonzero_count <= 1 THEN <<>>
       ELSE IF mode_count_occurrences = nonzero_count THEN <<first_nonzero_index>>
       ELSE SelectSeq([k \in 1..Len(counts) |-> k], LAMBDA k : counts[k] = mode_count)

\* mode.rs anti_modes: the result Vec as a sequence of faces in ascending order.
anti_modes(counts) ==
    LET mode_index == mode_from_counts(counts)
        mode_count == counts[mode_index]
        nonzero == {k \in 1..Len(counts) : counts[k] > 0}
        nonzero_count == Cardinality(nonzero)
        mode_count_occurrences == Cardinality({k \in nonzero : counts[k] = mode_count})
        min_nonzero == CHOOSE v \in {counts[k] : k \in nonzero} :
                           \A k \in nonzero : v <= counts[k]
        first_nonzero_index == CHOOSE k \in nonzero : \A j \in nonzero : k <= j
    IN IF nonzero_count <= 1 THEN <<>>
       ELSE IF mode_count_occurrences = nonzero_count THEN <<first_nonzero_index>>
       ELSE SelectSeq([k \in 1..Len(counts) |-> k], LAMBDA k : counts[k] = min_nonzero)

\* ------------------------------------------------------ strategy state

\* NaiveSimulation::new / DivideSimulation::new / MergeSimulation::new.
\* (Only NaiveSimulation has the mode field; it stays None for the others.)
New(kind, num_sides, num_dice) ==
    [kind |-> kind,
     buckets |-> Zeros(num_sides),
     num_dice |-> num_dice,
     num_sides |-> num_sides,
     num_to_roll |-> num_dice,
     num_rolls |-> 0,
     num_steps |-> 0,
     mode |-> None,
     done |-> FALSE]

\* The loop of Strategy::roll: one die per raw value, buckets[roll - 1] += 1.
RECURSIVE RollLoop(_, _, _, _)
RollLoop(buckets, num_sides, raws, i) ==
    IF i > Len(raws) THEN buckets
    ELSE RollLoop([buckets EXCEPT ![roll(num_sides, raws[i])] = @ + 1],
                  num_sides, raws, i + 1)

\* A mutant of Roll: num_rolls counts the call of roll(), not its dice.
Roll_CountsOnce(s, raws) ==
    [s EXCEPT !.buckets = RollLoop(s.buckets, s.num_sides, raws, 1),
              !.num_rolls = @ + 1]

\* A mutant of Roll: the dice kept from the round before are forgotten.
Roll_Fresh(s, raws) ==
    [s EXCEPT !.buckets = RollLoop(Zeros(s.num_sides), s.num_sides, raws, 1),
              !.num_rolls = @ + Len(raws)]

\* Strategy::roll: num_to_roll dice (raws holds their raw values), added to the
\* buckets; num_rolls grows by the number of dice rolled.
Roll(s, raws) ==
    [s EXCEPT !.buckets = RollLoop(s.buckets, s.num_sides, raws, 1),
              !.num_rolls = @ + Len(raws)]

\* The sequences of n raw values in ascending order. A roll adds one to a
\* bucket per die, whatever the order of the dice, so of the sequences of raw
\* values that differ only in their order one is followed.
RECURSIVE Ascending(_, _)
Ascending(n, values) ==
    IF n = 0 THEN {<<>>}
    ELSE UNION {{<<v>> \o rest : rest \in Ascending(n - 1, {w \in values : w >= v})} :
                   v \in values}

\* A mutant of Draws: roll() rolls num_dice dice, not num_to_roll.
Draws_AllDice(s) == Ascending(s.num_dice, RawValues)

\* The raw values one roll() can draw: one per die to roll.
Draws(s) == Ascending(s.num_to_roll, RawValues)

\* "self.num_dice - kept" on usize: the difference, or Underflow when kept
\* exceeds num_dice (a panic with overflow checks, a wrapped value without).
Underflow == -1
CheckedSub(a, b) == IF b > a THEN Underflow ELSE a - b

\* A mutant of Finish: num_to_roll is the number of dice kept, not the rest.
Finish_KeptToRoll(s, is_done, kept) ==
    IF is_done THEN [s EXCEPT !.done = TRUE, !.num_steps = @ + 1]
    ELSE IF CheckedSub(s.num_dice, kept) = Underflow THEN s
    ELSE [s EXCEPT !.num_to_roll = kept, !.num_steps = @ + 1]

\* A mutant of Finish: num_to_roll is never written.
Finish_StaleToRoll(s, is_done, kept) ==
    IF is_done THEN [s EXCEPT !.done = TRUE, !.num_steps = @ + 1]
    ELSE IF CheckedSub(s.num_dice, kept) = Underflow THEN s
    ELSE [s EXCEPT !.num_steps = @ + 1]

\* The end of every step(): done, or the next num_to_roll; then num_steps + 1.
\* With an underflow the subtraction is where the step fails: the fields
\* written before it keep their new values and the rest is left as it was.
Finish(s, is_done, kept) ==
    IF is_done THEN [s EXCEPT !.done = TRUE, !.num_steps = @ + 1]
    ELSE IF CheckedSub(s.num_dice, kept) = Underflow THEN s
    ELSE [s EXCEPT !.num_to_roll = CheckedSub(s.num_dice, kept), !.num_steps = @ + 1]

\* Whether the step of Finish(s, is_done, kept) fails in the subtraction.
Fails(s, is_done, kept) == ~is_done /\ CheckedSub(s.num_dice, kept) = Underflow

\* A mutant of NaiveMode: the mode is computed anew in every step.
NaiveMode_Recompute(r) == mode_from_counts(r.buckets)

\* NaiveSimulation::step after its roll: r is the state after self.roll().
NaiveMode(r) == IF r.mode = None THEN mode_from_counts(r.buckets) ELSE r.mode

\* A mutant of NaiveKeep: the loop that zeroes the other buckets is left out.
NaiveKeep_All(r) == r.buckets

\* The buckets after the loop "if k != mode_bucket { self.buckets[k] = 0; }".
NaiveKeep(r) ==
    [k \in 1..Len(r.buckets) |-> IF k # NaiveMode(r) THEN 0 ELSE r.buckets[k]]

\* A mutant of NaiveDone: > for ==.
NaiveDone_Over(r) == NaiveKeep(r)[NaiveMode(r)] > r.num_dice

NaiveDone(r) == NaiveKeep(r)[NaiveMode(r)] = r.num_dice

NaiveDecide(r) ==
    CHOOSE next \in {Finish([r EXCEPT !.mode = mode, !.buckets = keep],
                            NaiveDone(r), keep[mode]) :
                         mode \in {NaiveMode(r)}, keep \in {NaiveKeep(r)}} : TRUE

\* A mutant of DivideKept: the two leading faces are kept whatever the leading
\* count.
DivideKept_NoCollapse(r) ==
    <<top_two_modes_from_counts(r.buckets)[1], top_two_modes_from_counts(r.buckets)[2]>>

\* A mutant of DivideKept: the leading count is tested against half the dice
\* rounded up.
DivideKept_RoundedUp(r) ==
    LET modes == top_two_modes_from_counts(r.buckets) IN
    IF r.buckets[modes[1]] >= (r.num_dice + 1) \div 2
    THEN <<modes[1], modes[1]>>
    ELSE <<modes[1], modes[2]>>

\* A mutant of DivideKept: > for >= in the test of the leading count.
DivideKept_Over(r) ==
    LET modes == top_two_modes_from_counts(r.buckets) IN
    IF r.buckets[modes[1]] > r.num_dice \div 2
    THEN <<modes[1], modes[1]>>
    ELSE <<modes[1], modes[2]>>

\* DivideSimulation::step after its roll: the pair of kept faces.
DivideKept(r) ==
    LET modes == top_two_modes_from_counts(r.buckets) IN
    IF r.buckets[modes[1]] >= r.num_dice \div 2
    THEN <<modes[1], modes[1]>>
    ELSE <<modes[1], modes[2]>>

DivideKeep(r) ==
    CHOOSE keep \in {[k \in 1..Len(r.buckets) |->
                         IF k # kept[1] /\ k # kept[2] THEN 0 ELSE r.buckets[k]] :
                     kept \in {DivideKept(r)}} : TRUE

DivideDecide(r) ==
    CHOOSE next \in {Finish([r EXCEPT !.buckets = keep],
                            num_to_keep = r.num_dice, num_to_keep) :
                         keep \in {DivideKeep(r)},
                         num_to_keep \in {Sum(DivideKeep(r))}} : TRUE

\* A mutant of MergeKeep: buckets[k] = 0 for buckets[k - 1] = 0, the face taken
\* for the index of its bucket (a face beyond the last bucket zeroes nothing).
MergeKeep_FaceAsIndex(r) ==
    CHOOSE keep \in {[k \in 1..Len(r.buckets) |->
                         IF \E i \in 1..Len(anti) : anti[i] + 1 = k THEN 0 ELSE r.buckets[k]] :
                     anti \in {anti_modes(r.buckets)}} : TRUE

\* MergeSimulation::step after its roll: the anti-mode buckets are zeroed.
MergeKeep(r) ==
    CHOOSE keep \in {[k \in 1..Len(r.buckets) |->
                         IF \E i \in 1..Len(anti) : anti[i] = k THEN 0 ELSE r.buckets[k]] :
                     anti \in {anti_modes(r.buckets)}} : TRUE

MergeDecide(r) ==
    CHOOSE next \in {Finish([r EXCEPT !.buckets = keep],
                            num_to_keep = r.num_dice, num_to_keep) :
                         keep \in {MergeKeep(r)},
                         num_to_keep \in {Sum(MergeKeep(r))}} : TRUE

\* The step() the trait object dispatches to (SimulationType::as_strategy_mut),
\* applied to the state after the step's own roll().
Decide(r) ==
    CASE r.kind = "Naive" -> NaiveDecide(r)
      [] r.kind = "Divide" -> DivideDecide(r)
      [] r.kind = "Merge" -> MergeDecide(r)

\* Whether that step fails in its subtraction.
DecideFails(r) ==
    CASE r.kind = "Naive" -> Fails(r, NaiveDone(r), NaiveKeep(r)[NaiveMode(r)])
      [] r.kind = "Divide" -> Fails(r, Sum(DivideKeep(r)) = r.num_dice, Sum(DivideKeep(r)))
      [] r.kind = "Merge" -> Fails(r, Sum(MergeKeep(r)) = r.num_dice, Sum(MergeKeep(r)))

\* ------------------------------------------------------------ a trial

Kinds == {"Naive", "Divide", "Merge"}

\* No call of the mode engine on its own is in progress.
NoCall == [fn |-> "none", counts |-> <<>>, out |-> <<>>]

\* The program of main.rs is not running.
NoRun == [pc |-> "none"]

\* The build decides what an underflowing subtraction does.
Outcomes(fails) == IF fails THEN {"panic", "wrap"} ELSE {"none"}

\* A fresh strategy state for some valid num_sides >= 1 and num_dice >= 1.
InitTrial(start) ==
    /\ \E kind \in Kinds, num_sides \in 1..MaxSides, num_dice \in 1..MaxDice :
           sim = New(kind, num_sides, num_dice)
    /\ failed = "none"
    /\ pc = start
    /\ before = sim
    /\ rolled = sim.buckets
    /\ calls = 0
    /\ call = NoCall
    /\ mc = NoRun

\* One step() of the strategy `kind`: its own roll(), then its decision.
StepOf(kind) ==
    /\ sim.kind = kind
    /\ ~sim.done
    /\ failed = "none"
    /\ sim.num_steps < MaxSteps
    /\ \E raws \in Draws(sim) :
           \E r \in {Roll(sim, raws)} :
           /\ sim' = Decide(r)
           /\ failed' \in Outcomes(DecideFails(r))
           /\ rolled' = r.buckets
           /\ calls' = Len(raws)
    /\ before' = sim
    /\ UNCHANGED <<pc, call, mc>>

StepNaive == StepOf("Naive")
StepDivide == StepOf("Divide")
StepMerge == StepOf("Merge")

\* The trial loop of simulation.rs: while !sim.done() { sim.step(); }
Init == InitTrial("step")
Next == StepNaive \/ StepDivide \/ StepMerge
Spec == Init /\ [][Next]_vars

\* The trial loop of main.rs sim(): while !strategy.done() { strategy.roll();
\* strategy.step(); }, driving the strategies of simulation.rs, whose step()
\* begins with a roll() of its own. A round is one roll() and one step().
SimRoll ==
    /\ pc = "roll"
    /\ ~sim.done
    /\ failed = "none"
    /\ sim.num_steps < MaxSteps
    /\ \E raws \in Draws(sim) :
           /\ sim' = Roll(sim, raws)
           /\ rolled' = Roll(sim, raws).buckets
           /\ calls' = Len(raws)
    /\ before' = sim
    /\ pc' = "step"
    /\ UNCHANGED <<failed, call, mc>>

SimStep ==
    /\ pc = "step"
    /\ failed = "none"
    /\ \E raws \in Draws(sim) :
           \E r \in {Roll(sim, raws)} :
           /\ sim' = Decide(r)
           /\ failed' \in Outcomes(DecideFails(r))
           /\ rolled' = r.buckets
           /\ calls' = calls + Len(raws)
    /\ pc' = "roll"
    /\ UNCHANGED <<before, call, mc>>

SimInit == InitTrial("roll")
SimNext == SimRoll \/ SimStep
SimSpec == SimInit /\ [][SimNext]_vars

\* The trial loop of simulation.rs again, for the question of termination:
\* the counters stop at their bounds instead of ending the trial there, so
\* that a trial can go on for any number of rounds in a finite state space.
Saturated(s) ==
    [s EXCEPT !.num_steps = Min2(@, MaxSteps), !.num_rolls = Min2(@, MaxDice)]

\* The draws of a roll() in which every die lands on the face that holds the
\* most dice (the one mode_from_counts names).
LuckyDraws(s) ==
    Ascending(s.num_to_roll,
        {raw \in RawValues : roll(s.num_sides, raw) = mode_from_counts(s.buckets)})

FairStepWith(draws) ==
    /\ ~sim.done
    /\ failed = "none"
    /\ \E raws \in draws :
           \E r \in {Roll(sim, raws)} :
           /\ rolled' = r.buckets
           /\ calls' = Len(raws)
           /\ sim' = Saturated(Decide(r))
           /\ failed' \in Outcomes(DecideFails(r))
    /\ before' = sim
    /\ UNCHANGED <<pc, call, mc>>

\* Any step, and the step in which all the dice rolled land on the mode face.
AnyStep == FairStepWith(Draws(sim))
LuckyStep == FairStepWith(LuckyDraws(sim))

\* The die is uniform: an outcome that stays possible is eventually rolled.
FairNext == AnyStep \/ LuckyStep
FairSpec == Init /\ [][FairNext]_vars /\ WF_vars(LuckyStep)

\* The mode engine on its own: each function of mode.rs applied once to a
\* histogram of any length from 1 to MaxLen, or to the histogram of its tests.
ExampleCounts == <<1, 2, 3, 4, 2, 3, 1, 1>>

\* The histograms of test_anti_modes, test_anti_modes_empty and
\* test_anti_modes_tied.
AntiExampleCounts == <<3, 1, 1, 0, 2, 2, 1>>
AntiEmptyCounts == <<0, 0, 10, 0, 0, 0, 0>>
AntiTiedCounts == <<0, 0, 10, 10, 0, 0, 0>>
TestHistograms == {ExampleCounts, AntiExampleCounts, AntiEmptyCounts, AntiTiedCounts}

Histograms == UNION {[1..n -> 0..MaxCount] : n \in 1..MaxLen}

ModeInit ==
    /\ sim = New("Naive", 1, 1)
    /\ failed = "none"
    /\ pc = "step"
    /\ before = sim
    /\ rolled = sim.buckets
    /\ calls = 0
    /\ mc = NoRun
    /\ \E counts \in Histograms \cup TestHistograms :
           call = [fn |-> "none", counts |-> counts, out |-> <<>>]

Returns(fn, out) ==
    /\ call.fn = "none"
    /\ call' = [call EXCEPT !.fn = fn, !.out = out]
    /\ UNCHANGED <<sim, failed, pc, before, rolled, calls, mc>>

CallModeFromCounts ==
    Returns("mode_from_counts", <<mode_from_counts(call.counts)>>)

CallTopTwoModes ==
    Returns("top_two_modes_from_counts", top_two_modes_from_counts(call.counts))

CallAntiModes ==
    Returns("anti_modes", anti_modes(call.counts))

ModeNext == CallModeFromCounts \/ CallTopTwoModes \/ CallAntiModes
ModeSpec == ModeInit /\ [][ModeNext]_vars

\* The die source on its own: roll applied once to some num_sides >= 1 and
\* some raw value of the generator, raw values beyond num_sides included.
MaxRollSides == 8
MaxRollRaw == 24

RollInit ==
    /\ sim = New("Naive", 1, 1)
    /\ failed = "none"
    /\ pc = "step"
    /\ before = sim
    /\ rolled = sim.buckets
    /\ calls = 0
    /\ mc = NoRun
    /\ \E num_sides \in 1..MaxRollSides, raw \in 0..MaxRollRaw :
           call = [fn |-> "none", num_sides |-> num_sides, raw |-> raw, out |-> <<>>]

CallRoll == Returns("roll", <<roll(call.num_sides, call.raw)>>)

RollSpec == RollInit /\ [][CallRoll]_vars

\* ------------------------------------------------- the program of main.rs

\* main.rs keeps its own strategies: NaiveSimulation holds one value per die
\* (0 for a die to roll), DivideSimulation and MergeSimulation are unit structs.

\* NaiveSimulation::new of main.rs.
DiceNew(num_sides, num_dice) ==
    [kind |-> "Naive", dice |-> Zeros(num_dice), num_sides |-> num_sides,
     mode |-> None, done |-> FALSE]

\* The unit structs DivideSimulation and MergeSimulation.
Unit(kind) == [kind |-> kind]

\* The dice Simulation::roll rolls: those that show 0.
ZeroDice(dice) == {k \in 1..Len(dice) : dice[k] = 0}

\* The position among the zero dice of die k (1 for the first of them).
ZeroRank(dice, k) == Cardinality({j \in ZeroDice(dice) : j <= k})

\* Simulation::roll: every die that shows 0 gets roll(num_sides), in order;
\* raws holds the raw values drawn, one per die rolled. Returns the new state
\* and the number of dice rolled.
DiceRoll(s, raws) ==
    [strategy |-> [s EXCEPT !.dice =
                      [k \in 1..Len(s.dice) |->
                          IF s.dice[k] = 0
                          THEN roll(s.num_sides, raws[ZeroRank(s.dice, k)])
                          ELSE s.dice[k]]],
     num_rolls |-> Len(raws)]

\* dice.sort_unstable(): the dice in ascending order; position k holds the
\* value v with fewer than k dice below v and at least k dice up to v.
SortUnstable(dice) ==
    [k \in 1..Len(dice) |->
        CHOOSE v \in {dice[j] : j \in 1..Len(dice)} :
            /\ Cardinality({j \in 1..Len(dice) : dice[j] < v}) < k
            /\ Cardinality({j \in 1..Len(dice) : dice[j] <= v}) >= k]

\* The loop of mutated_serial_mode over the sorted dice (k is the code's k + 1);
\* st is [mode, mode_count, current, current_count].
RECURSIVE ModeScan(_, _, _)
ModeScan(dice, k, st) ==
    IF k > Len(dice) THEN st
    ELSE IF dice[k] = st.current
    THEN ModeScan(dice, k + 1, [st EXCEPT !.current_count = @ + 1])
    ELSE ModeScan(dice, k + 1,
             [mode |-> IF st.current_count > st.mode_count THEN st.current ELSE st.mode,
              mode_count |-> IF st.current_count > st.mode_count
                             THEN st.current_count ELSE st.mode_count,
              current |-> dice[k],
              current_count |-> 1])

\* mutated_serial_mode: sorts the dice in place and returns the value of the
\* longest run, the first of them when several are as long.
mutated_serial_mode(dice) ==
    LET sorted == SortUnstable(dice)
        st == ModeScan(sorted, 2, [mode |-> sorted[1], mode_count |-> 1,
                                   current |-> sorted[1], current_count |-> 1])
    IN [dice |-> sorted,
        mode |-> IF st.current_count > st.mode_count THEN st.current ELSE st.mode]

\* The number of lanes of std::simd::usizex64.
SimdLanes == 64

\* candidates(num_sides): one splat vector per face, written as its face.
candidates(num_sides) == [k \in 1..num_sides |-> k]

\* CANDIDATES.get_or_init(|| candidates(num_sides)): the content of the cell,
\* which is set by the first call only (<<>> is the cell not yet set).
GetOrInit(cell, num_sides) == IF cell = <<>> THEN candidates(num_sides) ELSE cell

\* usizex64::load_or_default(dice): the first SimdLanes dice, and 0 in the
\* lanes beyond the last die.
LoadOrDefault(dice) == [k \in 1..SimdLanes |-> IF k <= Len(dice) THEN dice[k] ELSE 0]

\* simd_mode: per candidate the number of lanes equal to it, and the index of
\* the maximum of these counts by max_by_key, plus 1. Returns the mode and the
\* content of CANDIDATES after the call.
simd_mode(dice, num_sides, cell) ==
    LET cands == GetOrInit(cell, num_sides)
        target == LoadOrDefault(dice)
        counts == [c \in 1..Len(cands) |->
                      Cardinality({k \in 1..SimdLanes : target[k] = cands[c]})]
    IN [mode |-> MaxByKeyLast(counts, 2, 1), cell |-> cands]

\* The largest num_sides and number of dice of the dice arrays the two mode
\* functions are called with.
MaxModeSides == 3
MaxModeDice == 4

\* More dice than SimdLanes: 33 dice on face 1, then 34 on face 2.
WideDice == [k \in 1..67 |-> IF k <= 33 THEN 1 ELSE 2]

\* The dice after the first roll of a trial: every die shows a face.
RolledDice(num_sides) ==
    UNION {[1..n -> 1..num_sides] : n \in 1..MaxModeDice}
        \cup (IF num_sides >= 2 THEN {WideDice} ELSE {})

\* A call of one of the mode functions of NaiveSimulation::step on rolled
\* dice; CANDIDATES is not set yet, or was set by an earlier call of the run.
DiceModeInit ==
    /\ sim = New("Naive", 1, 1)
    /\ failed = "none"
    /\ pc = "step"
    /\ before = sim
    /\ rolled = sim.buckets
    /\ calls = 0
    /\ mc = NoRun
    /\ \E num_sides \in 1..MaxModeSides :
       \E dice \in RolledDice(num_sides), cell \in {<<>>, candidates(num_sides)} :
           call = [fn |-> "none", dice |-> dice, num_sides |-> num_sides,
                   cell |-> cell, out |-> <<>>]

\* The build without the simd feature.
CallMutatedSerialMode ==
    /\ call.fn = "none"
    /\ \E found \in {mutated_serial_mode(call.dice)} :
           call' = [call EXCEPT !.fn = "mutated_serial_mode", !.dice = found.dice,
                                !.out = <<found.mode>>]
    /\ UNCHANGED <<sim, failed, pc, before, rolled, calls, mc>>

\* The build with the simd feature.
CallSimdMode ==
    /\ call.fn = "none"
    /\ \E found \in {simd_mode(call.dice, call.num_sides, call.cell)} :
           call' = [call EXCEPT !.fn = "simd_mode", !.cell = found.cell,
                                !.out = <<found.mode>>]
    /\ UNCHANGED <<sim, failed, pc, before, rolled, calls, mc>>

DiceModeNext == CallMutatedSerialMode \/ CallSimdMode
DiceModeSpec == DiceModeInit /\ [][DiceModeNext]_vars

\* NaiveSimulation::step of main.rs (without the simd feature): the mode is
\* computed when none is cached, every die that does not show it is zeroed,
\* and done says whether none was.
DiceStep(s) ==
    LET found == IF s.mode = None THEN mutated_serial_mode(s.dice)
                 ELSE [dice |-> s.dice, mode |-> s.mode]
    IN [s EXCEPT !.mode = found.mode,
                 !.dice = [k \in 1..Len(found.dice) |->
                              IF found.dice[k] # found.mode THEN 0 ELSE found.dice[k]],
                 !.done = \A k \in 1..Len(found.dice) : found.dice[k] = found.mode]

\* f64 values are modelled by the fractions num / den in lowest terms, and NaN
\* by 0 / 0. A count converted to f64 is rounded to FloatBits significant bits;
\* the operations on fractions are exact, but for the square root, which is
\* rounded down to a multiple of 1 / den.
FloatBits == 53

RECURSIVE GCD(_, _)
GCD(a, b) == IF b = 0 THEN a ELSE GCD(b, a % b)

NaN == [num |-> 0, den |-> 0]

Fraction(n, d) ==
    IF d = 0 THEN NaN
    ELSE LET g == GCD(IF n < 0 THEN -n ELSE n, d)
         IN [num |-> n \div g, den |-> d \div g]

RECURSIVE BitLen(_)
BitLen(n) == IF n = 0 THEN 0 ELSE 1 + BitLen(n \div 2)

\* n rounded to `bits` significant bits, ties to even.
RoundToBits(n, bits) ==
    IF BitLen(n) <= bits THEN n
    ELSE LET unit == 2 ^ (BitLen(n) - bits)
             q == n \div unit
             r == n % unit
         IN (IF 2 * r > unit \/ (2 * r = unit /\ q % 2 = 1) THEN q + 1 ELSE q) * unit

\* "n as Float" for a count n.
AsFloat(n) == Fraction(RoundToBits(n, FloatBits), 1)

FloatDiv(a, b) ==
    IF a.den = 0 \/ b.den = 0 \/ b.num = 0 THEN NaN
    ELSE Fraction(a.num * b.den, a.den * b.num)

FloatMul(a, b) ==
    IF a.den = 0 \/ b.den = 0 THEN NaN ELSE Fraction(a.num * b.num, a.den * b.den)

FloatSub(a, b) ==
    IF a.den = 0 \/ b.den = 0 THEN NaN
    ELSE Fraction(a.num * b.den - b.num * a.den, a.den * b.den)

\* The largest r with r * r <= n.
ISqrt(n) == CHOOSE r \in 0..n : r * r <= n /\ (r + 1) * (r + 1) > n

\* f64::sqrt: NaN for a negative value.
FloatSqrt(a) ==
    IF a.den = 0 \/ a.num < 0 THEN NaN
    ELSE Fraction(ISqrt(a.num * a.den), a.den)

\* A mutant of Statistics: the sample variance (N - 1 for N).
Statistics_Sample(total_rolls, total_squared_rolls, num_simulations) ==
    LET average == FloatDiv(AsFloat(total_rolls), AsFloat(num_simulations))
        variance == FloatSub(FloatDiv(AsFloat(total_squared_rolls),
                                      AsFloat(num_simulations - 1)),
                             FloatMul(average, average))
    IN [average |-> average, std_dev |-> FloatSqrt(variance)]

\* The end of monte_carlo: average, variance and std_dev from the totals read
\* (the duration, a reading of the clock, is left out).
Statistics(total_rolls, total_squared_rolls, num_simulations) ==
    LET average == FloatDiv(AsFloat(total_rolls), AsFloat(num_simulations))
        variance == FloatSub(FloatDiv(AsFloat(total_squared_rolls),
                                      AsFloat(num_simulations)),
                             FloatMul(average, average))
    IN [average |-> average, std_dev |-> FloatSqrt(variance)]

\* The names main() accepts, and a name it does not.
StrategyNames == {"naive", "divide", "merge"}
StrategyArgs == StrategyNames \cup {"other"}

\* The largest num_sides, num_dice and num_simulations given to main(), and the
\* number of rolls followed in one of its trials.
MaxMainSides == 2
MaxMainDice == 2
MaxSimulations == 2
MaxTrialRolls == 4

\* A trial that has not begun: the closure of map() has not run for it.
IdleTrial == [pc |-> "idle", strategy |-> Unit("none"), num_rolls |-> 0]

\* main() before its match, for some arguments (clap has parsed them).
MainInit ==
    /\ sim = New("Naive", 1, 1)
    /\ failed = "none"
    /\ pc = "step"
    /\ before = sim
    /\ rolled = sim.buckets
    /\ calls = 0
    /\ call = NoCall
    /\ \E name \in StrategyArgs, num_sides \in 1..MaxMainSides,
          num_dice \in 1..MaxMainDice, num_simulations \in 1..MaxSimulations :
           mc = [pc |-> "main",
                 name |-> name,
                 num_sides |-> num_sides,
                 num_dice |-> num_dice,
                 num_simulations |-> num_simulations,
                 strategy |-> Unit("none"),
                 trials |-> [i \in 1..num_simulations |-> IdleTrial],
                 total_rolls |-> 0,
                 total_squared_rolls |-> 0,
                 read |-> <<>>,
                 output |-> <<>>]

MainFrame == UNCHANGED <<sim, failed, pc, before, rolled, calls, call>>

\* A mutant of MainMatch: a name that is not known falls back to "naive".
MainMatch_Fallback ==
    /\ mc.pc = "main"
    /\ mc' = CASE mc.name = "divide" ->
                    [mc EXCEPT !.pc = "monte_carlo", !.strategy = Unit("Divide")]
               [] mc.name = "merge" ->
                    [mc EXCEPT !.pc = "monte_carlo", !.strategy = Unit("Merge")]
               [] OTHER ->
                    [mc EXCEPT !.pc = "monte_carlo",
                               !.strategy = DiceNew(mc.num_sides, mc.num_dice)]
    /\ MainFrame

\* main(): the match on the strategy name builds the strategy, or panics with
\* "Invalid strategy".
MainMatch ==
    /\ mc.pc = "main"
    /\ mc' = CASE mc.name = "naive" ->
                    [mc EXCEPT !.pc = "monte_carlo",
                               !.strategy = DiceNew(mc.num_sides, mc.num_dice)]
               [] mc.name = "divide" ->
                    [mc EXCEPT !.pc = "monte_carlo", !.strategy = Unit("Divide")]
               [] mc.name = "merge" ->
                    [mc EXCEPT !.pc = "monte_carlo", !.strategy = Unit("Merge")]
               [] OTHER -> [mc EXCEPT !.pc = "panicked"]
    /\ MainFrame

\* monte_carlo(): the two totals are created at 0 and the trials are handed to
\* the parallel iterator.
MonteCarloStart ==
    /\ mc.pc = "monte_carlo"
    /\ mc' = [mc EXCEPT !.pc = "par_iter", !.total_rolls = 0, !.total_squared_rolls = 0]
    /\ MainFrame

\* A worker takes trial i: sim(strategy_type.clone()) begins, and its loop asks
\* strategy.done(), which is unimplemented!() for Divide and Merge.
TrialStart(i) ==
    /\ mc.pc = "par_iter"
    /\ mc.trials[i].pc = "idle"
    /\ mc' = IF mc.strategy.kind = "Naive"
             THEN [mc EXCEPT !.trials[i] =
                      [pc |-> "sim", strategy |-> mc.strategy, num_rolls |-> 0]]
             ELSE [mc EXCEPT !.trials[i] =
                      [pc |-> "panicked", strategy |-> mc.strategy, num_rolls |-> 0]]
    /\ MainFrame

\* A mutant of TrialRound: sim() is given the strategy of monte_carlo itself
\* and not a clone, so that a round of a trial is a round of that strategy too.
TrialRound_InPlace(i) ==
    /\ mc.pc = "par_iter"
    /\ mc.trials[i].pc = "sim"
    /\ LET trial == mc.trials[i]
           n == Cardinality(ZeroDice(trial.strategy.dice))
       IN /\ trial.num_rolls + n <= MaxTrialRolls
          /\ \E raws \in [1..n -> RawValues] :
                 \E rolled_dice \in {DiceRoll(trial.strategy, raws)} :
                 \E stepped \in {DiceStep(rolled_dice.strategy)} :
                     mc' = [mc EXCEPT !.strategy = stepped,
                                      !.trials[i] =
                               [pc |-> IF stepped.done THEN "add_rolls" ELSE "sim",
                                strategy |-> stepped,
                                num_rolls |-> trial.num_rolls + rolled_dice.num_rolls]]
    /\ MainFrame

\* One pass of the loop of sim() in trial i: strategy.roll(), strategy.step(),
\* and the loop's test of strategy.done(), after which sim() returns.
TrialRound(i) ==
    /\ mc.pc = "par_iter"
    /\ mc.trials[i].pc = "sim"
    /\ LET trial == mc.trials[i]
           n == Cardinality(ZeroDice(trial.strategy.dice))
       IN /\ trial.num_rolls + n <= MaxTrialRolls
          /\ \E raws \in [1..n -> RawValues] :
                 \E rolled_dice \in {DiceRoll(trial.strategy, raws)} :
                 \E stepped \in {DiceStep(rolled_dice.strategy)} :
                     mc' = [mc EXCEPT !.trials[i] =
                               [pc |-> IF stepped.done THEN "add_rolls" ELSE "sim",
                                strategy |-> stepped,
                                num_rolls |-> trial.num_rolls + rolled_dice.num_rolls]]
    /\ MainFrame

\* for_each on the result of trial i: total_rolls.fetch_add(rolls).
AddRolls(i) ==
    /\ mc.pc = "par_iter"
    /\ mc.trials[i].pc = "add_rolls"
    /\ mc' = [mc EXCEPT !.total_rolls = @ + mc.trials[i].num_rolls,
                        !.trials[i].pc = "add_squared"]
    /\ MainFrame

\* for_each on the result of trial i: total_squared_rolls.fetch_add(rolls * rolls).
AddSquaredRolls(i) ==
    /\ mc.pc = "par_iter"
    /\ mc.trials[i].pc = "add_squared"
    /\ mc' = [mc EXCEPT !.total_squared_rolls =
                            @ + mc.trials[i].num_rolls * mc.trials[i].num_rolls,
                        !.trials[i].pc = "joined"]
    /\ MainFrame

\* for_each returns when every trial has run to its end.
AllJoined == \A i \in 1..mc.num_simulations : mc.trials[i].pc = "joined"

\* monte_carlo() after for_each: the totals are loaded and the statistics
\* computed and returned.
MonteCarloReturn ==
    /\ mc.pc = "par_iter"
    /\ AllJoined
    /\ mc' = [mc EXCEPT !.pc = "returned",
                        !.read = [total_rolls |-> mc.total_rolls,
                                  total_squared_rolls |-> mc.total_squared_rolls],
                        !.output = Statistics(mc.total_rolls, mc.total_squared_rolls,
                                              mc.num_simulations)]
    /\ MainFrame

\* A panic in a trial is carried to the caller of for_each once no trial is
\* under way (the trials not begun may be given up): monte_carlo() and main()
\* unwind.
MonteCarloPanic ==
    /\ mc.pc = "par_iter"
    /\ \E i \in 1..mc.num_simulations : mc.trials[i].pc = "panicked"
    /\ \A i \in 1..mc.num_simulations : mc.trials[i].pc \in {"idle", "joined", "panicked"}
    /\ mc' = [mc EXCEPT !.pc = "panicked"]
    /\ MainFrame

MainNext ==
    \/ MainMatch
    \/ MonteCarloStart
    \/ \E i \in 1..mc.num_simulations :
           TrialStart(i) \/ TrialRound(i) \/ AddRolls(i) \/ AddSquaredRolls(i)
    \/ MonteCarloReturn
    \/ MonteCarloPanic

MainSpec == MainInit /\ [][MainNext]_vars

\* ------------------------------------------------------------ claims

\* A Tenzi: exactly one bucket holds all num_dice dice and every other is 0.
IsTenzi(buckets, num_dice) ==
    \E f \in 1..Len(buckets) :
        /\ buckets[f] = num_dice
        /\ \A g \in 1..Len(buckets) : g # f => buckets[g] = 0

\* C2: after any step() of any strategy, done is true if and only if the
\* histogram is a Tenzi; and a post-roll histogram with all the dice on one
\* face sets done in that same step.
C2_DoneIffTenzi ==
    sim.num_steps >= 1 =>
        /\ sim.done <=> IsTenzi(sim.buckets, sim.num_dice)
        /\ IsTenzi(rolled, sim.num_dice) => sim.done

\* C2 witness: a Divide trial that reached a Tenzi in its third step, after
\* steps that kept dice and left done false.
C2_Witness ==
    /\ sim.kind = "Divide"
    /\ sim.done
    /\ sim.num_steps >= 3
    /\ Sum(before.buckets) > 0
    /\ IsTenzi(sim.buckets, sim.num_dice)

\* C3: in every state of a trial the buckets sum to at most num_dice, after
\* the roll() inside a step (rolled) as well as after the step.
C3_SumAtMostDice ==
    /\ Sum(sim.buckets) <= sim.num_dice
    /\ Sum(rolled) <= sim.num_dice

\* C3 witness: a later round in which the roll fills the histogram up to
\* num_dice and the step then keeps fewer.
C3_Witness ==
    /\ sim.num_steps >= 2
    /\ Sum(before.buckets) > 0
    /\ Sum(rolled) = sim.num_dice
    /\ Sum(sim.buckets) < sim.num_dice

\* C5: with one side, no trial has more than one round: after the first step
\* the trial is done with num_steps = 1 and num_rolls = num_dice, and before
\* it that step can be taken.
C5_OneSideOneRound ==
    sim.num_sides = 1 =>
        IF sim.num_steps = 0
        THEN ~sim.done /\ ENABLED Next
        ELSE sim.done /\ sim.num_steps = 1 /\ sim.num_rolls = sim.num_dice

\* C5 witness: a finished one-sided Divide trial of several dice.
C5_Witness ==
    /\ sim.num_sides = 1
    /\ sim.kind = "Divide"
    /\ sim.num_dice >= 2
    /\ sim.done

\* C6 as stated: for every strategy the bucket mass after a step is at least
\* the mass after the step before.
C6_MassNonDecreasing ==
    sim.num_steps >= 1 => Sum(sim.buckets) >= Sum(before.buckets)

\* C6 amended: for the Naive strategy the bucket mass after a step is at least
\* the mass after the step before.
C6_NaiveMassNonDecreasing ==
    (sim.kind = "Naive" /\ sim.num_steps >= 1) =>
        Sum(sim.buckets) >= Sum(before.buckets)

\* C6 witness: a Naive round that started with kept dice and added to them.
C6_Witness ==
    /\ sim.kind = "Naive"
    /\ sim.num_steps >= 2
    /\ Sum(before.buckets) > 0
    /\ Sum(sim.buckets) > Sum(before.buckets)

\* C7 as stated: between rounds, the done state included, num_to_roll is
\* num_dice minus the sum of the buckets.
C7_ToRollIsUnlocked ==
    sim.num_to_roll = sim.num_dice - Sum(sim.buckets)

\* C7 amended: between rounds num_to_roll is num_dice minus the sum of the
\* buckets as long as done is false; the step that sets done leaves
\* num_to_roll at the value it had when that step began.
C7_ToRollIsUnlockedUntilDone ==
    IF sim.done
    THEN sim.num_to_roll = before.num_to_roll
    ELSE sim.num_to_roll = sim.num_dice - Sum(sim.buckets)

\* C7 witness: a trial between two rounds, with dice kept and dice to roll.
C7_Witness ==
    /\ ~sim.done
    /\ sim.num_steps >= 2
    /\ Sum(sim.buckets) > 0
    /\ sim.num_to_roll > 0

\* C1: every trial, of every strategy and every num_sides, num_dice >= 1,
\* eventually reaches done when the die is fair.
C1_Terminates == <>(sim.done)

\* C1 witness: a trial that is done after three or more rounds, the last of
\* which began with some dice already kept and rolled only the rest.
C1_Witness ==
    /\ sim.done
    /\ sim.num_steps >= 3
    /\ before.num_to_roll < sim.num_dice

MaxOf(counts) ==
    CHOOSE v \in {counts[k] : k \in 1..Len(counts)} :
        \A k \in 1..Len(counts) : counts[k] <= v

MaxOfRest(counts, skip) ==
    CHOOSE v \in {counts[k] : k \in 1..Len(counts) \ {skip}} :
        \A k \in 1..Len(counts) \ {skip} : counts[k] <= v

\* C8: mode_from_counts returns the 1-based index of a maximum count, and of
\* the indices that hold the maximum it returns the last.
C8_ModeIsLastMaximum ==
    call.fn = "mode_from_counts" =>
        LET m == call.out[1] IN
        /\ m \in 1..Len(call.counts)
        /\ call.counts[m] = MaxOf(call.counts)
        /\ \A k \in 1..Len(call.counts) : call.counts[k] = MaxOf(call.counts) => k <= m

\* C8 witness: a histogram whose positive maximum is held by two indices, the
\* later of which is neither the first nor the last index.
C8_Witness ==
    /\ call.fn = "mode_from_counts"
    /\ MaxOf(call.counts) > 0
    /\ call.out[1] < Len(call.counts)
    /\ \E k \in 1..Len(call.counts) :
           k < call.out[1] /\ call.counts[k] = call.counts[call.out[1]]

\* C9: for a histogram of two or more faces top_two_modes_from_counts returns
\* two distinct indices (first, second) with counts[first] >= counts[second]
\* and counts[second] >= the count of every index other than first.
C9_TopTwoDistinctOrdered ==
    (call.fn = "top_two_modes_from_counts" /\ Len(call.counts) >= 2) =>
        LET first == call.out[1]
            second == call.out[2]
        IN /\ first \in 1..Len(call.counts)
           /\ second \in 1..Len(call.counts)
           /\ first # second
           /\ call.counts[first] >= call.counts[second]
           /\ \A k \in 1..Len(call.counts) :
                  k # first => call.counts[second] >= call.counts[k]

\* C10 as stated: on ties top_two_modes_from_counts prefers the higher index
\* for the first and for the second position; the example gives (4, 6).
\* (Stated for the histograms whose two largest counts are positive, where
\* the two positions are held by dice.)
C10_TiesPreferHigherIndex ==
    (/\ call.fn = "top_two_modes_from_counts"
     /\ Len(call.counts) >= 2
     /\ MaxOfRest(call.counts, call.out[1]) > 0) =>
        LET first == call.out[1]
            second == call.out[2]
        IN /\ call.counts[first] = MaxOf(call.counts)
           /\ \A k \in 1..Len(call.counts) :
                  call.counts[k] = MaxOf(call.counts) => k <= first
           /\ call.counts[second] = MaxOfRest(call.counts, first)
           /\ \A k \in 1..Len(call.counts) \ {first} :
                  call.counts[k] = MaxOfRest(call.counts, first) => k <= second
           /\ call.counts = ExampleCounts => call.out = <<4, 6>>

\* C10 amended: on ties top_two_modes_from_counts prefers the lower index for
\* the first and for the second position: first is the lowest index holding
\* the maximum and second the lowest other index holding the largest count
\* among the others, except that (1, 1) is returned when index 1 holds the
\* maximum and every other count is 0; the example gives (4, 3).
C10_TiesPreferLowerIndex ==
    (call.fn = "top_two_modes_from_counts" /\ Len(call.counts) >= 2) =>
        LET first == call.out[1]
            second == call.out[2]
        IN /\ call.counts[first] = MaxOf(call.counts)
           /\ \A k \in 1..Len(call.counts) :
                  call.counts[k] = MaxOf(call.counts) => first <= k
           /\ IF first = 1 /\ MaxOfRest(call.counts, first) = 0
              THEN second = 1
              ELSE /\ second # first
                   /\ call.counts[second] = MaxOfRest(call.counts, first)
                   /\ \A k \in 1..Len(call.counts) \ {first} :
                          call.counts[k] = MaxOfRest(call.counts, first) => second <= k
           /\ call.counts = ExampleCounts => call.out = <<4, 3>>

\* C10 witness: the example of the test, where the count 3 of the second
\* position is held by the indices 3 and 6.
C10_Witness ==
    /\ call.fn = "top_two_modes_from_counts"
    /\ call.counts = ExampleCounts
    /\ call.out = <<4, 3>>

\* C11: anti_modes returns the reference result: no face when at most one
\* face has a nonzero count; only the lowest nonzero face when every nonzero
\* count equals the largest count; otherwise exactly the faces whose count is
\* the least nonzero count (each once, in ascending order).
C11_AntiModesReference ==
    call.fn = "anti_modes" =>
        LET counts == call.counts
            nonzero == {k \in 1..Len(counts) : counts[k] > 0}
            result == {call.out[i] : i \in 1..Len(call.out)}
        IN /\ \A i \in 1..Len(call.out) - 1 : call.out[i] < call.out[i + 1]
           /\ IF Cardinality(nonzero) <= 1 THEN result = {}
              ELSE IF \A k \in nonzero : counts[k] = MaxOf(counts)
              THEN result = {k \in nonzero : \A j \in nonzero : k <= j}
              ELSE result = {k \in nonzero : \A j \in nonzero : counts[k] <= counts[j]}
           /\ counts = AntiExampleCounts => call.out = <<2, 3, 7>>
           /\ counts = AntiEmptyCounts => call.out = <<>>
           /\ counts = AntiTiedCounts => call.out = <<3>>

\* C11 witness: a complete tie of three faces behind an empty one, of which
\* only the lowest is returned.
C11_Witness ==
    /\ call.fn = "anti_modes"
    /\ call.counts = <<0, 2, 2, 2>>
    /\ call.out = <<2>>

\* C12: a run with a valid strategy name (and num_sides, num_dice >= 1) never
\* fails: no trial panics and monte_carlo does not unwind, for "naive",
\* "divide" and "merge" alike.
C12_TrialsNeverFail ==
    (mc.pc # "none" /\ mc.name \in StrategyNames) =>
        /\ mc.pc # "panicked"
        /\ \A i \in 1..mc.num_simulations : mc.trials[i].pc # "panicked"

\* The sum over the trials of the rolls each returned, and of their squares.
SumOfRolls == Sum([i \in 1..mc.num_simulations |-> mc.trials[i].num_rolls])

SumOfSquaredRolls ==
    Sum([i \in 1..mc.num_simulations |-> mc.trials[i].num_rolls * mc.trials[i].num_rolls])

\* The two totals monte_carlo keeps are read after every trial has joined, hold
\* the sums over the trials of rolls and of rolls squared when they are read,
\* and are not added to afterwards.
RollTotalsAreSums ==
    mc.pc = "returned" =>
        /\ AllJoined
        /\ mc.read.total_rolls = SumOfRolls
        /\ mc.read.total_squared_rolls = SumOfSquaredRolls
        /\ mc.total_rolls = mc.read.total_rolls
        /\ mc.total_squared_rolls = mc.read.total_squared_rolls

\* C13: once all trials have joined, the totals the aggregator reads are the
\* four of rolls, rolls squared, steps and steps squared, each the sum over
\* the trials of the per-trial value, read after the last contribution.
C13_FourTotalsAreSums ==
    mc.pc = "returned" =>
        /\ RollTotalsAreSums
        /\ DOMAIN mc.read = {"total_rolls", "total_squared_rolls",
                             "total_steps", "total_squared_steps"}

\* C14: with num_simulations = 1 the average monte_carlo returns is exactly
\* the number of rolls of its one trial and the standard deviation is 0.
C14_SingleTrialStatistics ==
    (mc.pc = "returned" /\ mc.num_simulations = 1) =>
        /\ mc.output.average = Fraction(mc.trials[1].num_rolls, 1)
        /\ mc.output.std_dev = Fraction(0, 1)

\* C14 witness: a run of one trial that took three rolls or more (a tie of the
\* first roll, then a die rolled again) has returned.
C14_Witness ==
    /\ mc.pc = "returned"
    /\ mc.num_simulations = 1
    /\ mc.trials[1].num_rolls >= 3
    /\ mc.output.average = Fraction(mc.trials[1].num_rolls, 1)

\* C15: with a strategy name other than "naive", "divide" and "merge", main()
\* stops at its match: no strategy is built, monte_carlo is not entered, no
\* trial begins, no total is written and nothing is returned.
C15_UnknownNameRejected ==
    (mc.pc # "none" /\ mc.name \notin StrategyNames) =>
        /\ mc.pc \in {"main", "panicked"}
        /\ mc.strategy = Unit("none")
        /\ \A i \in 1..mc.num_simulations : mc.trials[i] = IdleTrial
        /\ mc.total_rolls = 0
        /\ mc.total_squared_rolls = 0
        /\ mc.read = <<>>
        /\ mc.output = <<>>

\* C15 witness: main() has panicked on a name it does not know, with several
\* simulations asked for.
C15_Witness ==
    /\ mc.pc = "panicked"
    /\ mc.name \notin StrategyNames
    /\ mc.num_simulations >= 2

\* C16: for every num_sides >= 1 and every raw value of the generator, roll
\* returns a face from 1 to num_sides.
C16_RollInRange ==
    call.fn = "roll" => call.out[1] \in 1..call.num_sides

\* C16 witness: a raw value of several times num_sides that lands on the
\* highest face of a die of three sides or more.
C16_Witness ==
    /\ call.fn = "roll"
    /\ call.num_sides >= 3
    /\ call.raw >= 2 * call.num_sides
    /\ call.out[1] = call.num_sides

\* C17: Naive: the first step() caches the face mode_from_counts names for
\* its post-roll histogram, no later step changes the cached face, and after
\* every step() every bucket but that of the cached face is 0.
C17_NaiveModeCached ==
    (sim.kind = "Naive" /\ sim.num_steps >= 1) =>
        /\ sim.mode \in 1..sim.num_sides
        /\ IF before.num_steps = 0
           THEN before.mode = None /\ sim.mode = mode_from_counts(rolled)
           ELSE sim.mode = before.mode
        /\ \A k \in 1..sim.num_sides : k # sim.mode => sim.buckets[k] = 0

\* C17 witness: a later Naive step whose post-roll histogram has another face
\* ahead of the cached one, which is kept all the same.
C17_Witness ==
    /\ sim.kind = "Naive"
    /\ sim.num_steps >= 2
    /\ sim.mode = before.mode
    /\ \E k \in 1..sim.num_sides : rolled[k] > rolled[sim.mode]
    /\ sim.buckets[sim.mode] > 0

\* C18: Divide: with h the post-roll histogram of a step and (first, second)
\* = top_two_modes_from_counts(h): if h[first] >= num_dice div 2, bucket
\* first keeps h[first] after the step and every other bucket is 0; if not,
\* buckets first and second keep h[first] and h[second] and the others are 0.
C18_DivideKeepsTopTwo ==
    (sim.kind = "Divide" /\ sim.num_steps >= 1) =>
        LET h == rolled
            first == top_two_modes_from_counts(h)[1]
            second == top_two_modes_from_counts(h)[2]
        IN IF h[first] >= sim.num_dice \div 2
           THEN sim.buckets = [k \in 1..Len(h) |-> IF k = first THEN h[first] ELSE 0]
           ELSE sim.buckets = [k \in 1..Len(h) |->
                                  IF k = first THEN h[first]
                                  ELSE IF k = second THEN h[second] ELSE 0]

\* C18 witness: a Divide step that kept two faces and zeroed a third that held
\* dice.
C18_Witness ==
    /\ sim.kind = "Divide"
    /\ sim.num_steps >= 1
    /\ Cardinality({k \in 1..sim.num_sides : sim.buckets[k] > 0}) = 2
    /\ \E k \in 1..sim.num_sides : rolled[k] > 0 /\ sim.buckets[k] = 0

\* C19: Merge: with h the post-roll histogram of a step, after the step every
\* bucket of a face in anti_modes(h) is 0 and every other bucket holds what
\* it held in h.
C19_MergeZeroesAntiModes ==
    (sim.kind = "Merge" /\ sim.num_steps >= 1) =>
        LET anti == {anti_modes(rolled)[i] : i \in 1..Len(anti_modes(rolled))}
        IN \A k \in 1..Len(rolled) :
               sim.buckets[k] = IF k \in anti THEN 0 ELSE rolled[k]

\* C19 witness: a later Merge step, begun with dice kept, that zeroed two
\* anti-mode faces and retained the third.
C19_Witness ==
    /\ sim.kind = "Merge"
    /\ sim.num_steps >= 2
    /\ Sum(before.buckets) > 0
    /\ Len(anti_modes(rolled)) = 2
    /\ Sum(sim.buckets) > 0

\* C20: for each strategy, on every round that leaves done false, step() zeroes
\* at least one bucket that held dice kept from the previous round.
C20_KeptBucketZeroed ==
    (sim.num_steps >= 1 /\ ~sim.done /\ failed = "none") =>
        \E k \in 1..sim.num_sides : before.buckets[k] > 0 /\ sim.buckets[k] = 0

\* C20, amended: on every round that leaves done false, step() zeroes at least
\* one bucket that held dice after the round's roll.
C20_RolledBucketZeroed ==
    (sim.num_steps >= 1 /\ ~sim.done /\ failed = "none") =>
        \E k \in 1..sim.num_sides : rolled[k] > 0 /\ sim.buckets[k] = 0

\* C20 witness: a later round, begun with dice kept, that left done false and
\* zeroed a bucket filled by its roll while every bucket of kept dice stayed.
C20_Witness ==
    /\ sim.num_steps >= 2
    /\ ~sim.done
    /\ failed = "none"
    /\ Sum(before.buckets) > 0
    /\ \A k \in 1..sim.num_sides : before.buckets[k] > 0 => sim.buckets[k] > 0
    /\ \E k \in 1..sim.num_sides :
           before.buckets[k] = 0 /\ rolled[k] > 0 /\ sim.buckets[k] = 0

\* The strategy main() builds for the name it was given.
BuiltStrategy ==
    CASE mc.name = "naive" -> DiceNew(mc.num_sides, mc.num_dice)
      [] mc.name = "divide" -> Unit("Divide")
      [] mc.name = "merge" -> Unit("Merge")

\* C21: every trial of monte_carlo starts from the initial strategy state (all
\* dice 0, no mode, not done, nothing rolled) whatever the other trials have
\* done; the strategy handed to monte_carlo is never changed; and a step that
\* changes one trial's state leaves every other trial's state as it was.
C21_TrialsIsolated ==
    [][mc.pc = "par_iter" =>
          /\ mc'.strategy = mc.strategy
          /\ mc.strategy = BuiltStrategy
          /\ \A i \in 1..mc.num_simulations :
                 /\ (mc.trials[i].pc = "idle" /\ mc'.trials[i].pc # "idle") =>
                        /\ mc'.trials[i].strategy = BuiltStrategy
                        /\ mc'.trials[i].num_rolls = 0
                 /\ mc'.trials[i] # mc.trials[i] =>
                        \A j \in 1..mc.num_simulations :
                            j # i => mc'.trials[j] = mc.trials[j]]_vars

\* C21 witness: a trial has just started, with all its dice 0 and nothing
\* rolled, while another trial has rolled and kept dice.
C21_Witness ==
    /\ mc.pc = "par_iter"
    /\ \E i, j \in 1..mc.num_simulations :
           /\ mc.trials[i].pc = "sim"
           /\ mc.trials[i].num_rolls = 0
           /\ mc.trials[i].strategy = DiceNew(mc.num_sides, mc.num_dice)
           /\ mc.trials[j].pc = "sim"
           /\ mc.trials[j].num_rolls > 0
           /\ mc.trials[j].strategy.mode # None
           /\ mc.strategy = DiceNew(mc.num_sides, mc.num_dice)

\* C22: the serial and the vectorized mode function return the same mode for
\* every dice array: whatever simd_mode returns for rolled dice is what
\* mutated_serial_mode returns for them.
C22_SameMode ==
    call.fn = "simd_mode" =>
        call.out = <<mutated_serial_mode(call.dice).mode>>

\* C23: for each strategy no step() fails in its subtraction, and whenever a
\* step() ends with done false, 1 <= num_to_roll <= num_dice - 1, at least one
\* die is kept and at least one bucket that held dice after the roll is zeroed.
C23_ToRollInRange ==
    /\ failed = "none"
    /\ (sim.num_steps >= 1 /\ ~sim.done) =>
           /\ 1 <= sim.num_to_roll
           /\ sim.num_to_roll <= sim.num_dice - 1
           /\ Sum(sim.buckets) >= 1
           /\ \E k \in 1..sim.num_sides : rolled[k] > 0 /\ sim.buckets[k] = 0

\* C23 witness: a step() of three or more dice that ended with done false and
\* a single die kept, so that num_to_roll is num_dice - 1.
C23_Witness ==
    /\ sim.num_steps >= 1
    /\ ~sim.done
    /\ sim.num_dice >= 3
    /\ Sum(sim.buckets) = 1
    /\ sim.num_to_roll = sim.num_dice - 1

\* C24: for each strategy the largest bucket count after a step() is at least
\* the largest bucket count after the step() before it; and Merge never zeroes
\* every face that holds the largest count of the post-roll histogram.
C24_LargestCountNonDecreasing ==
    sim.num_steps >= 1 =>
        /\ MaxOf(sim.buckets) >= MaxOf(before.buckets)
        /\ sim.kind = "Merge" => MaxOf(sim.buckets) = MaxOf(rolled)

\* C24 witness: a later Merge step whose roll left all the faces that hold
\* dice tied, two or more of them, and that kept the largest count.
C24_Witness ==
    /\ sim.kind = "Merge"
    /\ sim.num_steps >= 2
    /\ MaxOf(before.buckets) >= 1
    /\ Cardinality({k \in 1..sim.num_sides : rolled[k] > 0}) >= 2
    /\ \A k \in 1..sim.num_sides : rolled[k] > 0 => rolled[k] = MaxOf(rolled)
    /\ MaxOf(sim.buckets) = MaxOf(rolled)

\* The last step() was a Divide step that collapsed: the leading count of its
\* post-roll histogram was at least num_dice div 2.
DivideCollapsed ==
    /\ sim.kind = "Divide"
    /\ sim.num_steps >= 1
    /\ MaxOf(rolled) >= sim.num_dice \div 2

\* At most one bucket holds dice.
AtMostOneKept == Cardinality({k \in 1..sim.num_sides : sim.buckets[k] > 0}) <= 1

\* C25: Divide: once a step() has collapsed to a single kept face, that step
\* and every later step() of the trial leave at most one bucket that holds
\* dice.
C25_CollapseIsPermanent == [](DivideCollapsed => []AtMostOneKept)

\* C25 witness: a Divide step after a collapse that left the trial not done,
\* whose roll put dice on two or more faces and which kept a single face.
C25_Witness ==
    /\ sim.kind = "Divide"
    /\ sim.num_steps >= 2
    /\ Cardinality({k \in 1..sim.num_sides : before.buckets[k] > 0}) = 1
    /\ MaxOf(before.buckets) >= sim.num_dice \div 2
    /\ Cardinality({k \in 1..sim.num_sides : rolled[k] > 0}) >= 2
    /\ Cardinality({k \in 1..sim.num_sides : sim.buckets[k] > 0}) = 1

====
